---- MODULE Spec2Model ----
(***************************************************************************)
(* Pipelined sender (client_pipelined2.py: fixed window, burst            *)
(* retransmission; client_pipelined3.py: adaptive window, single          *)
(* retransmission) and cumulative-acknowledgment receiver (server2.py)    *)
(* over a UDP channel that loses, duplicates and reorders datagrams.      *)
(*                                                                         *)
(* A datagram is a sequence of 32-bit words: the two header words         *)
(* (magic, seqno) followed by the payload words.                          *)
(***************************************************************************)
EXTENDS Integers, Sequences, FiniteSets, TLC

\* Number of chunks the data source offers before it signals end-of-data.
NumChunks == 3
\* Largest window size N the fixed-window sender is started with.
MaxWindow == 3
\* Largest sequence number the environment of RecvSpec puts on the wire.
MaxInjectSeq == 3

\* magic = 0xBAADCAFE, the first header word of every data datagram; never validated
Magic == "0xBAADCAFE"
\* struct.pack(">II", 0xAAAAAAAA, last_cum_ack): the first word of every acknowledgment
AckMagic == "0xAAAAAAAA"

VARIABLES
    variant,              \* "fixed" (client_pipelined2) or "adaptive" (client_pipelined3)
    n,                    \* client_pipelined2: window size N (argv[3])
    seqno,                \* sender: sequence number of the next data packet
    desired_ackno,        \* sender: ACK number that we must next wait for
    body,                 \* sender: data of the next data packet
    have_more_data,       \* sender
    outstanding,          \* sender: seqno -> datagram
    state,                \* sender: 0..3
    highest_cum_ack,      \* client_pipelined3 only
    swnd,                 \* client_pipelined3 only
    pc,                   \* sender: "run" inside the while loop, "done" after it, "crashed"
    last_cum_ack,         \* receiver: delivery frontier
    out_of_order_packets, \* receiver: seqno -> payload
    server_up,            \* receiver: FALSE once an exception left the receive loop
    dataChan,             \* datagrams in flight, sender to receiver
    ackChan,              \* acknowledgments on their way to the sender or queued in its socket
    delivered,            \* history: the calls of datasink.deliver, in order
    lastRecv,             \* history: what the receiver did with the datagram it handled last
    acksEmitted,          \* history: every ackno the receiver has sent
    arrived,              \* history: the sequence numbers the receiver has unpacked
    actedAcks,            \* history: acknos the sender took the progress branch on
    lastResent,           \* history: the datagrams the last pass through state 3 sent, in order
    progressRun,          \* history: progress events since the last timeout
    queried,              \* history: the arguments of datasource.wait_for_data, in order
    staleDiscarded        \* history: the sender's last step discarded a stale acknowledgment

senderVars == <<variant, n, seqno, desired_ackno, body, have_more_data, outstanding,
                state, highest_cum_ack, swnd, pc>>
senderHist == <<actedAcks, lastResent, progressRun, queried, staleDiscarded>>
serverVars == <<last_cum_ack, out_of_order_packets, server_up>>
serverHist == <<delivered, lastRecv, acksEmitted, arrived>>
vars == <<senderVars, senderHist, serverVars, serverHist, dataChan, ackChan>>

----------------------------------------------------------------------------
(* Wire format *)

\* struct.pack(">II", a, b): two big-endian unsigned 32-bit words.
PackII(a, b) == <<a, b>>

\* Whether struct.unpack(">II", hdr) succeeds: hdr must be exactly 8 bytes.
CanUnpackII(hdr) == Len(hdr) = 2

\* packet[0:8] and packet[8:]; a Python slice never fails, it comes out short.
Header(packet) == SubSeq(packet, 1, IF Len(packet) < 2 THEN Len(packet) ELSE 2)
Payload(packet) == SubSeq(packet, 3, Len(packet))

\* The body datasource.wait_for_data returns when there is no more data.
None == << -1 >>

\* The chunk the data source produces for sequence number s.
Chunk(s) == <<200 + s>>

\* datasource.wait_for_data(seqno)
wait_for_data(s) == IF s < NumChunks THEN Chunk(s) ELSE None

\* dict with one key set: d[k] = v
DictSet(d, k, v) == [i \in DOMAIN d \cup {k} |-> IF i = k THEN v ELSE d[i]]

\* dict restricted to the keys in keep
DictKeep(d, keep) == [i \in DOMAIN d \cap keep |-> d[i]]

EmptyDict == [i \in {} |-> <<>>]

----------------------------------------------------------------------------
(* Sender: client_pipelined2.py main (fixed) and client_pipelined3.py main (adaptive) *)

Len_outstanding == Cardinality(DOMAIN outstanding)

\* Window one datagram wider than configured
Window_wide == IF variant = "fixed" THEN n + 1 ELSE swnd + 1

\* The window the sender compares len(outstanding) with: n (fixed) or swnd (adaptive).
Window == IF variant = "fixed" THEN n ELSE swnd

\* LoopCond with "and" for "or": the loop is left while data remains
LoopCond_and == have_more_data /\ Len_outstanding > 0

\* while have_more_data or len(outstanding) > 0
LoopCond == have_more_data \/ Len_outstanding > 0

\* StateAfterSend with ">" for ">=": one datagram more than the window goes out
StateAfterSend_gt(len, w) == IF len > w THEN 2 ELSE 0

\* state 1: if len(outstanding) >= n: state = 2 else: state = 0
StateAfterSend(len, w) == IF len >= w THEN 2 ELSE 0

\* AckAccepted without the comparison: every acknowledgment is acted upon
AckAccepted_any(ackno) == TRUE

\* state 2: the test that selects the progress branch
AckAccepted(ackno) ==
    IF variant = "fixed" THEN ackno >= desired_ackno ELSE ackno > highest_cum_ack

\* DropAcked as a per-packet acknowledgment: only the key ackno is removed
DropAcked_one(out, ackno) == DictKeep(out, DOMAIN out \ {ackno})

\* DropAcked forgetting everything: any progress empties the outstanding set
DropAcked_all(out, ackno) == EmptyDict

\* state 2, progress branch: the outstanding set after the acknowledgment
\*   fixed:    for i in range(desired_ackno, ackno + 1): del outstanding[i]
\*   adaptive: {seq: pkt for seq, pkt in outstanding.items() if seq > highest_cum_ack}
DropAcked(out, ackno) ==
    IF variant = "fixed"
    THEN DictKeep(out, DOMAIN out \ (desired_ackno .. ackno))
    ELSE DictKeep(out, {s \in DOMAIN out : s > ackno})

\* StateAfterAck without "and have_more_data": the source is asked again after its end
StateAfterAck_nomore(len, w) == IF len < w THEN 0 ELSE 2

\* state 2: if len(outstanding) < n and have_more_data: state = 0 else: state = 2
StateAfterAck(len, w) == IF len < w /\ have_more_data THEN 0 ELSE 2

\* ResendList of the single retransmission for both variants
ResendList_first ==
    IF desired_ackno \in DOMAIN outstanding THEN <<desired_ackno>> ELSE <<>>

\* state 3: the keys looked up in outstanding, in order
\*   fixed:    for i in range(desired_ackno, seqno)
\*   adaptive: if desired_ackno in outstanding: desired_ackno
ResendList ==
    IF variant = "fixed"
    THEN [k \in 1 .. (seqno - desired_ackno) |-> desired_ackno + k - 1]
    ELSE IF desired_ackno \in DOMAIN outstanding THEN <<desired_ackno>> ELSE <<>>

\* the longest prefix of the key list q whose keys are all in outstanding
RECURSIVE PresentPrefix(_)
PresentPrefix(q) ==
    IF q = <<>> \/ Head(q) \notin DOMAIN outstanding THEN <<>>
    ELSE <<Head(q)>> \o PresentPrefix(Tail(q))

\* state 3: the datagram resent for key i, pkt = outstanding[i]
ResendPkt(i) == outstanding[i]

\* SwndAfterTimeout without the reset
SwndAfterTimeout_keep == swnd

\* state 3, adaptive: swnd = 1 inside "if desired_ackno in outstanding"
SwndAfterTimeout ==
    IF variant = "adaptive" /\ desired_ackno \in DOMAIN outstanding THEN 1 ELSE swnd

\* StateAfterStale without the window test: a stale acknowledgment sends the sender
\* for data whenever data remains
StateAfterStale_zero == IF have_more_data THEN 0 ELSE 2

\* state 2, no progress: the fixed sender sets state = 2; the adaptive sender runs
\* "if len(outstanding) < swnd and have_more_data" after the progress test, whatever
\* the acknowledgment was
StateAfterStale ==
    IF variant = "fixed" THEN 2 ELSE StateAfterAck(Len_outstanding, swnd)

\* state 2, adaptive progress branch: swnd += 1
SwndAfterProgress == IF variant = "adaptive" THEN swnd + 1 ELSE swnd

\* state 0: wait for data to be available to send
AwaitData ==
    /\ pc = "run" /\ LoopCond /\ state = 0
    /\ body' = wait_for_data(seqno)
    /\ IF body' = None
       THEN have_more_data' = FALSE /\ state' = 2
       ELSE have_more_data' = have_more_data /\ state' = 1
    /\ queried' = Append(queried, seqno)
    /\ UNCHANGED <<variant, n, seqno, desired_ackno, outstanding, highest_cum_ack,
                   swnd, pc, actedAcks, lastResent, progressRun, staleDiscarded,
                   serverVars, serverHist, dataChan, ackChan>>

\* state 1: send one data packet
SendOne ==
    /\ pc = "run" /\ LoopCond /\ state = 1
    /\ LET pkt == PackII(Magic, seqno) \o body IN
         /\ dataChan' = dataChan \cup {pkt}
         /\ outstanding' = DictSet(outstanding, seqno, pkt)
    /\ seqno' = seqno + 1
    /\ state' = StateAfterSend(Cardinality(DOMAIN outstanding'), Window)
    /\ UNCHANGED <<variant, n, desired_ackno, body, have_more_data, highest_cum_ack,
                   swnd, pc, senderHist, serverVars, serverHist, ackChan>>

\* state 2, recvfrom returned the datagram ack; keep: the network delivers it again later
RecvAck(ack, keep) ==
    /\ pc = "run" /\ LoopCond /\ state = 2
    /\ ack \in ackChan
    /\ ackChan' = IF keep THEN ackChan ELSE ackChan \ {ack}
    /\ LET ackno == ack[2] IN
         IF AckAccepted(ackno)
         THEN /\ outstanding' = DropAcked(outstanding, ackno)
              /\ desired_ackno' = ackno + 1
              /\ highest_cum_ack' = IF variant = "adaptive" THEN ackno ELSE highest_cum_ack
              /\ swnd' = SwndAfterProgress
              /\ state' = StateAfterAck(Cardinality(DOMAIN outstanding'),
                                        IF variant = "fixed" THEN n ELSE swnd')
              /\ actedAcks' = Append(actedAcks, ackno)
              /\ progressRun' = progressRun + 1
              /\ staleDiscarded' = FALSE
         ELSE /\ state' = StateAfterStale
              /\ staleDiscarded' = TRUE
              /\ UNCHANGED <<outstanding, desired_ackno, highest_cum_ack, swnd, actedAcks,
                           progressRun>>
    /\ UNCHANGED <<lastResent, queried>>
    /\ UNCHANGED <<variant, n, seqno, body, have_more_data, pc,
                   serverVars, serverHist, dataChan>>

\* state 2, except (socket.timeout, socket.error): state = 3
Timeout ==
    /\ pc = "run" /\ LoopCond /\ state = 2
    /\ state' = 3
    /\ progressRun' = 0
    /\ staleDiscarded' = FALSE
    /\ UNCHANGED <<variant, n, seqno, desired_ackno, body, have_more_data, outstanding,
                   highest_cum_ack, swnd, pc, actedAcks, lastResent, queried,
                   serverVars, serverHist, dataChan, ackChan>>

\* state 3: resend; outstanding[i] of a missing key raises KeyError and ends the process
Retransmit ==
    /\ pc = "run" /\ LoopCond /\ state = 3
    /\ LET sent == PresentPrefix(ResendList) IN
         /\ lastResent' = [k \in 1 .. Len(sent) |-> ResendPkt(sent[k])]
         /\ dataChan' = dataChan \cup {lastResent'[k] : k \in 1 .. Len(sent)}
         /\ IF sent = ResendList
            THEN swnd' = SwndAfterTimeout /\ state' = 2 /\ pc' = pc
            ELSE pc' = "crashed" /\ UNCHANGED <<swnd, state>>
    /\ UNCHANGED <<variant, n, seqno, desired_ackno, body, have_more_data, outstanding,
                   highest_cum_ack, actedAcks, progressRun, queried, staleDiscarded,
                   serverVars, serverHist, ackChan>>

\* the while condition is false: the loop is left ("Finished sending all packets!")
Finish ==
    /\ pc = "run" /\ ~LoopCond
    /\ pc' = "done"
    /\ UNCHANGED <<variant, n, seqno, desired_ackno, body, have_more_data, outstanding,
                   state, highest_cum_ack, swnd, senderHist, serverVars, serverHist,
                   dataChan, ackChan>>

SenderNext ==
    \/ AwaitData
    \/ SendOne
    \/ \E ack \in ackChan, keep \in BOOLEAN : RecvAck(ack, keep)
    \/ Timeout
    \/ Retransmit
    \/ Finish

----------------------------------------------------------------------------
(* Receiver: server2.py main *)

\* InOrder with ">=" for "==": a datagram ahead of the frontier is delivered at once
InOrder_ge(s, frontier) == s >= frontier + 1

\* if seqno == last_cum_ack + 1
InOrder(s, frontier) == s = frontier + 1

\* AheadOfOrder without the comparison: whatever is not in order is buffered
AheadOfOrder_any(s, frontier) == s # frontier + 1

\* elif seqno > last_cum_ack + 1
AheadOfOrder(s, frontier) == s > frontier + 1

\* the branch of the if / elif a datagram with sequence number s takes
Classify(s, frontier) ==
    IF InOrder(s, frontier) THEN "in-order"
    ELSE IF AheadOfOrder(s, frontier) THEN "ahead" ELSE "duplicate"

\* DrainTo without the while loop: the frontier stops at the arriving datagram
DrainTo_none(f, buf) == f

\* while last_cum_ack + 1 in out_of_order_packets: last_cum_ack += 1
\* the frontier the drain loop stops at, started at frontier f with buffer buf
RECURSIVE DrainTo(_, _)
DrainTo(f, buf) == IF f + 1 \in DOMAIN buf THEN DrainTo(f + 1, buf) ELSE f

\* PoppedPayload without the assignment from pop: the arriving payload is delivered again
PoppedPayload_arriving(buf, k, arriving) == arriving

\* payload = out_of_order_packets.pop(last_cum_ack): the payload delivered for key k
\* of the buffer, while the arriving datagram's payload is arriving
PoppedPayload(buf, k, arriving) == buf[k]

\* the deliver calls of the drain loop from frontier f (exclusive) to g (inclusive)
RECURSIVE DrainCalls(_, _, _, _)
DrainCalls(f, g, buf, arriving) ==
    IF f >= g THEN <<>>
    ELSE <<[seqno |-> f + 1, payload |-> PoppedPayload(buf, f + 1, arriving)]>>
         \o DrainCalls(f + 1, g, buf, arriving)

\* AcksFor as a per-packet acknowledgment of the sequence number just received
AcksFor_perPacket(s, before, after) == <<s>>

\* the acknowledgment values sent while handling a datagram with sequence number s
\* that found the frontier at before and left it at after: send_cum_ack is called
\* only at the end of the in-order branch
AcksFor(s, before, after) == IF InOrder(s, before) THEN <<after>> ELSE <<>>

\* send_cum_ack: struct.pack(">II", 0xAAAAAAAA, last_cum_ack)
AckDatagram(ackno) == PackII(AckMagic, ackno)

SeqToSet(q) == {q[i] : i \in 1 .. Len(q)}

\* one iteration of the receive loop on the datagram packet; lose: the network
\* drops what send_cum_ack hands to s.sendto
ServerRecv(packet, lose) ==
    /\ server_up
    /\ LET hdr == Header(packet)
           payload == Payload(packet)
       IN IF ~CanUnpackII(hdr)
          THEN \* struct.error leaves the while loop and the process
               /\ server_up' = FALSE
               /\ UNCHANGED <<last_cum_ack, out_of_order_packets, serverHist, ackChan>>
          ELSE LET s == hdr[2]
                   after == IF InOrder(s, last_cum_ack)
                            THEN DrainTo(s, out_of_order_packets)
                            ELSE last_cum_ack
                   calls == IF InOrder(s, last_cum_ack)
                            THEN <<[seqno |-> s, payload |-> payload]>>
                                 \o DrainCalls(s, after, out_of_order_packets, payload)
                            ELSE <<>>
                   acks == AcksFor(s, last_cum_ack, after)
               IN /\ last_cum_ack' = after
                  /\ out_of_order_packets' =
                        IF InOrder(s, last_cum_ack)
                        THEN DictKeep(out_of_order_packets,
                                      DOMAIN out_of_order_packets \ ((s + 1) .. after))
                        ELSE IF AheadOfOrder(s, last_cum_ack)
                        THEN DictSet(out_of_order_packets, s, payload)
                        ELSE out_of_order_packets
                  /\ delivered' = delivered \o calls
                  /\ ackChan' = IF lose THEN ackChan
                                ELSE ackChan \cup {AckDatagram(a) : a \in SeqToSet(acks)}
                  /\ acksEmitted' = acksEmitted \cup SeqToSet(acks)
                  /\ arrived' = arrived \cup {s}
                  /\ lastRecv' = <<[kind |-> Classify(s, last_cum_ack), acks |-> acks,
                                    calls |-> Len(calls)]>>
                  /\ server_up' = server_up

----------------------------------------------------------------------------
(* The network: UDP loses, duplicates and reorders *)

\* the receiver's recvfrom returns packet; keep: the network delivers it again later;
\* lose: the network drops the acknowledgment the receiver answers with
DeliverData(packet, keep, lose) ==
    /\ packet \in dataChan
    /\ dataChan' = IF keep THEN dataChan ELSE dataChan \ {packet}
    /\ ServerRecv(packet, lose)
    /\ UNCHANGED <<senderVars, senderHist>>

LoseData(packet) ==
    /\ packet \in dataChan
    /\ dataChan' = dataChan \ {packet}
    /\ UNCHANGED <<senderVars, senderHist, serverVars, serverHist, ackChan>>

\* RecvSpec only: any well-formed data datagram may arrive at the receiver
Inject(s) ==
    /\ dataChan' = dataChan \cup {PackII(Magic, s) \o Chunk(s)}
    /\ UNCHANGED <<senderVars, senderHist, serverVars, serverHist, ackChan>>

\* a datagram shorter than the 8-byte header: one 32-bit word
Runt == <<Magic>>

\* RecvSpec only: a datagram shorter than the header arrives at the receiver
InjectRunt ==
    /\ dataChan' = dataChan \cup {Runt}
    /\ UNCHANGED <<senderVars, senderHist, serverVars, serverHist, ackChan>>

----------------------------------------------------------------------------
(* Specifications *)

SenderInit ==
    /\ \/ variant = "fixed" /\ n \in 0 .. MaxWindow
       \/ variant = "adaptive" /\ n = 0
    /\ seqno = 0
    /\ desired_ackno = 0
    /\ body = None
    /\ have_more_data = TRUE
    /\ outstanding = EmptyDict
    /\ state = 0
    /\ highest_cum_ack = -1
    /\ swnd = 1
    /\ pc = "run"
    /\ actedAcks = <<>>
    /\ lastResent = <<>>
    /\ progressRun = 0
    /\ queried = <<>>
    /\ staleDiscarded = FALSE

ServerInit ==
    /\ last_cum_ack = -1
    /\ out_of_order_packets = EmptyDict
    /\ server_up = TRUE
    /\ delivered = <<>>
    /\ lastRecv = <<>>
    /\ acksEmitted = {}
    /\ arrived = {}

Init == SenderInit /\ ServerInit /\ dataChan = {} /\ ackChan = {}

ServerNext ==
    \E packet \in dataChan, keep \in BOOLEAN, lose \in BOOLEAN : DeliverData(packet, keep, lose)

NetworkNext == \E packet \in dataChan : LoseData(packet)

Next == SenderNext \/ ServerNext \/ NetworkNext

\* sender and receiver over the lossy network
Spec == Init /\ [][Next]_vars

\* the receiver alone, fed any sequence of data datagrams
RecvNext ==
    \/ \E s \in 0 .. MaxInjectSeq : Inject(s)
    \/ InjectRunt
    \/ ServerNext
    \/ NetworkNext

\* the sender is not started: one fixed configuration, never stepped
RecvInit == Init /\ variant = "fixed" /\ n = 1

RecvSpec == RecvInit /\ [][RecvNext]_vars

\* the system under the scheduling the code and the network give it: the sender's
\* loop keeps running; a wait in state 2 that sees only stale acknowledgments ends
\* in a timeout; a data datagram that is sent again and again reaches the receiver,
\* and not every answer to it is dropped; an acknowledgment that has reached the
\* sender's socket is read
DataDatagram(s) == PackII(Magic, s) \o Chunk(s)

Fairness ==
    /\ WF_vars(SenderNext)
    /\ WF_vars(Timeout)
    /\ \A s \in 0 .. (NumChunks - 1) :
          SF_vars(\E keep \in BOOLEAN : DeliverData(DataDatagram(s), keep, FALSE))
    /\ \A a \in 0 .. (NumChunks - 1) :
          SF_vars(\E keep \in BOOLEAN : RecvAck(AckDatagram(a), keep))

\* a window of at least one datagram
FairInit == Init /\ (variant = "fixed" => n >= 1)

FairSpec == FairInit /\ [][Next]_vars /\ Fairness

----------------------------------------------------------------------------
(* Properties *)

DeliveredSeqnos == {delivered[i].seqno : i \in 1 .. Len(delivered)}

StrictlyIncreasing(q) == \A i, j \in 1 .. Len(q) : i < j => q[i] < q[j]

\* C1: the i-th call of datasink.deliver (counting from 0) carries seqno i, whatever
\* the order, duplication and loss of the arriving datagrams.
C1_InOrderDelivery == \A i \in 1 .. Len(delivered) : delivered[i].seqno = i - 1

\* C1 witness: a datagram that arrived ahead of order was delivered by the drain loop.
C1_Witness ==
    /\ Len(delivered) >= 3
    /\ lastRecv # <<>>
    /\ lastRecv[1].calls >= 2

\* C2: for a finite data source the sender eventually leaves its loop.
C2_SenderTerminates == <>(pc = "done")

\* C3: the receiver sends exactly one acknowledgment for every datagram it handles,
\* carrying the frontier after the datagram was processed.
C3_OneAckPerDatagram == lastRecv # <<>> => lastRecv[1].acks = <<last_cum_ack>>

\* C4: every acknowledgment ever emitted is cumulative: ackno <= frontier and every
\* sequence number 0..ackno has been delivered to the sink.
C4_AcksCumulative ==
    /\ \A a \in acksEmitted :
          /\ a <= last_cum_ack
          /\ \A s \in 0 .. a : s \in DeliveredSeqnos
    /\ \A ack \in ackChan : ack[2] \in acksEmitted

\* C4 witness: acknowledgments were emitted while a gap holds a datagram in the buffer.
C4_Witness ==
    /\ Cardinality(acksEmitted) >= 2
    /\ DOMAIN out_of_order_packets # {}

\* C5: every payload delivered to the sink is the chunk the data source produced for
\* that seqno.
C5_PayloadIntact ==
    \A i \in 1 .. Len(delivered) : delivered[i].payload = Chunk(delivered[i].seqno)

\* C5 witness: after a retransmission, a buffered datagram was delivered by the drain
\* loop and the sink has every chunk.
C5_Witness ==
    /\ lastResent # <<>>
    /\ lastRecv # <<>>
    /\ lastRecv[1].calls >= 2
    /\ Len(delivered) = NumChunks

\* C6: once the sender has left its loop, have_more_data is false and outstanding is
\* empty.
C6_NoPrematureCompletion ==
    pc = "done" => ~have_more_data /\ DOMAIN outstanding = {}

\* C6 witness: the sender has left its loop after sending every chunk.
C6_Witness == pc = "done" /\ seqno = NumChunks /\ Len(actedAcks) >= 1

\* C7: the acknos acted upon in the progress branch are strictly increasing and
\* desired_ackno never decreases.
C7_AckMonotonic ==
    [][desired_ackno' >= desired_ackno /\ StrictlyIncreasing(actedAcks')]_vars

\* C7 witness: after two progress events a stale acknowledgment is waiting for the
\* sender in state 2.
C7_Witness ==
    /\ Len(actedAcks) >= 2
    /\ state = 2 /\ pc = "run" /\ LoopCond
    /\ \E ack \in ackChan : ack[2] < desired_ackno

\* C8: the keys of outstanding are exactly desired_ackno .. seqno - 1, so every key
\* the burst retransmission looks up is present.
C8_OutstandingIsRange ==
    /\ DOMAIN outstanding = desired_ackno .. (seqno - 1)
    /\ desired_ackno <= seqno
    /\ pc # "crashed"

\* C8 witness: the burst retransmission is about to resend two datagrams after an
\* acknowledgment advanced desired_ackno.
C8_Witness ==
    /\ variant = "fixed" /\ state = 3
    /\ desired_ackno >= 1
    /\ Len_outstanding >= 2

\* C9 as stated: under the fixed window the outstanding set never exceeds N, for
\* every configured N.
C9_WindowBoundAnyN == variant = "fixed" => Len_outstanding <= n

\* C9 amended: under the fixed window with N >= 1 the outstanding set never exceeds
\* N; with N < 1 it never exceeds one datagram.
C9_WindowBound ==
    variant = "fixed" => Len_outstanding <= (IF n >= 1 THEN n ELSE 1)

\* C9 witness: a window of two is full again after an acknowledgment made room.
C9_Witness ==
    /\ variant = "fixed" /\ n = 2
    /\ Len_outstanding = 2
    /\ desired_ackno >= 1

\* C10: the adaptive window is 1 plus the number of progress events since the last
\* timeout (since the start when there was none); stale acknowledgments leave it
\* alone and state 3 resets it to 1. Between a timeout and the run of state 3 the
\* reset is still to come.
C10_AdaptiveWindow ==
    (variant = "adaptive" /\ state # 3) => swnd = 1 + progressRun

\* C10 witness: two progress events in all, one of them since the last timeout.
C10_Witness ==
    /\ variant = "adaptive"
    /\ Len(actedAcks) >= 2
    /\ progressRun = 1 /\ swnd = 2
    /\ lastResent # <<>>

\* C11: the reorder buffer holds no key <= the frontier and not the key frontier + 1,
\* in the initial state and after every step, and no step decreases the frontier.
BufferAhead == \A k \in DOMAIN out_of_order_packets : k > last_cum_ack + 1

C11_BufferAheadOfFrontier ==
    BufferAhead /\ [][BufferAhead' /\ last_cum_ack' >= last_cum_ack]_vars

\* C11 witness: the drain loop has just advanced the frontier past a buffered
\* datagram while a later one stays in the buffer.
C11_Witness ==
    /\ lastRecv # <<>>
    /\ lastRecv[1].calls >= 2
    /\ last_cum_ack >= 1
    /\ DOMAIN out_of_order_packets # {}

\* C12: once the receiver has handled every sequence number 0..k, in any order and
\* any number of times, and none above k, the frontier is k and the buffer is empty.
C12_BufferDrains ==
    \A k \in 0 .. MaxInjectSeq :
        arrived = 0 .. k => last_cum_ack = k /\ DOMAIN out_of_order_packets = {}

\* C12 witness: 0..k have all arrived, the last one filling a gap below buffered ones.
C12_Witness ==
    /\ arrived = 0 .. 2
    /\ lastRecv # <<>>
    /\ lastRecv[1].calls = 3

\* the receive loop handles the datagram packet in this step
Handles(packet) == \E keep \in BOOLEAN, lose \in BOOLEAN : DeliverData(packet, keep, lose)

\* the seqno arguments of the deliver calls, in order
DeliveredOrder == [i \in 1 .. Len(delivered) |-> delivered[i].seqno]

\* C13: when a datagram with seqno <= frontier is handled, deliver is invoked for it
\* once more, the frontier and the buffer are unchanged and any acknowledgment sent
\* carries the unchanged frontier.
DuplicateArrival(s) == s <= last_cum_ack /\ Handles(DataDatagram(s))

C13_DuplicateReported ==
    [][\A s \in 0 .. MaxInjectSeq :
          DuplicateArrival(s) =>
             /\ DeliveredOrder' = Append(DeliveredOrder, s)
             /\ last_cum_ack' = last_cum_ack
             /\ out_of_order_packets' = out_of_order_packets
             /\ \A i \in 1 .. Len(lastRecv'[1].acks) :
                   lastRecv'[1].acks[i] = last_cum_ack]_vars

\* C14: from the initial receiver state, with datagrams arriving in the order
\* 0, 2, 1, 3, the deliver calls are 0, 1, 2, 3 in that order, the acknowledgment
\* sent when 2 arrives carries 0 and the one sent when 1 arrives carries 3.
\* The receiver at frontier f with the keys buffered handles the datagram s:
ArrivalAt(s, f, keys) ==
    /\ last_cum_ack = f
    /\ DOMAIN out_of_order_packets = keys
    /\ Handles(DataDatagram(s))

C14_ScenarioC ==
    [][/\ ArrivalAt(0, -1, {}) => DeliveredOrder' = <<0>>
       /\ ArrivalAt(2, 0, {}) =>
             DeliveredOrder' = <<0>> /\ lastRecv'[1].acks = <<0>>
       /\ ArrivalAt(1, 0, {2}) =>
             DeliveredOrder' = <<0, 1, 2>> /\ lastRecv'[1].acks = <<3>>
       /\ ArrivalAt(3, 2, {}) => DeliveredOrder' = <<0, 1, 2, 3>>]_vars

\* C15: when a datagram shorter than the header is handled, no acknowledgment is
\* sent, the frontier and the buffer are unchanged and the receive loop keeps running.
C15_MalformedDropped ==
    [][Handles(Runt) =>
          /\ server_up'
          /\ UNCHANGED <<last_cum_ack, out_of_order_packets, ackChan, acksEmitted>>]_vars

\* C16: the data source is queried at most once per sequence number, and never
\* again after it has signalled end-of-data.
C16_SourceQueriedOnce ==
    /\ \A i, j \in 1 .. Len(queried) : i < j => queried[i] # queried[j]
    /\ \A i \in 1 .. Len(queried) :
          wait_for_data(queried[i]) = None => i = Len(queried)

\* C16 witness: the sender has finished after retransmitting; the source was asked
\* for every chunk and for the end-of-data.
C16_Witness ==
    /\ pc = "done"
    /\ Len(queried) = NumChunks + 1
    /\ lastResent # <<>>

\* C17: a step of state 2 that reads an acknowledgment with ackno < desired_ackno
\* leaves outstanding, desired_ackno, seqno, the window and have_more_data unchanged
\* and the sender in state 2, in both variants.
StaleAck(ack) == ack[2] < desired_ackno /\ \E keep \in BOOLEAN : RecvAck(ack, keep)

C17_StaleAckDiscarded ==
    [][\A a \in 0 .. (NumChunks - 1) :
          StaleAck(AckDatagram(a)) =>
             /\ UNCHANGED <<outstanding, desired_ackno, seqno, swnd, n, have_more_data>>
             /\ state' = 2]_vars

\* C17 witness: the adaptive sender, with a window of two or more and data still to
\* come, has just discarded a stale acknowledgment.
C17_Witness ==
    /\ staleDiscarded
    /\ variant = "adaptive"
    /\ swnd >= 2
    /\ have_more_data
    /\ state = 2 /\ pc = "run"

\* C18: a pass through state 3 of the fixed variant resends every datagram of the
\* outstanding set and no other, once each, in ascending seqno order, with the bytes
\* first sent; outstanding, desired_ackno and seqno are unchanged and the sender is
\* in state 2 afterwards.
C18_BurstRetransmit ==
    [][(variant = "fixed" /\ Retransmit) =>
          /\ Len(lastResent') = Len_outstanding
          /\ \A k \in 1 .. Len(lastResent') :
                /\ lastResent'[k][2] \in DOMAIN outstanding
                /\ lastResent'[k] = DataDatagram(lastResent'[k][2])
          /\ \A j, k \in 1 .. Len(lastResent') :
                j < k => lastResent'[j][2] < lastResent'[k][2]
          /\ dataChan' = dataChan \cup SeqToSet(lastResent')
          /\ UNCHANGED <<outstanding, desired_ackno, seqno>>
          /\ state' = 2]_vars

\* C18 witness: after an acknowledgment advanced desired_ackno, a burst has resent
\* the two or more datagrams that are outstanding.
C18_Witness ==
    /\ variant = "fixed" /\ state = 2
    /\ desired_ackno >= 1
    /\ Len(lastResent) >= 2
    /\ Len(lastResent) = Len_outstanding
    /\ lastResent[1][2] = desired_ackno

\* C19: once the sender has left its loop, the receiver's frontier is the last
\* sequence number the sender assigned and every chunk has been delivered.
C19_EndToEnd ==
    pc = "done" =>
        /\ last_cum_ack = seqno - 1
        /\ DeliveredOrder = [i \in 1 .. NumChunks |-> i - 1]

\* C19 witness: the adaptive sender has finished after a retransmission.
C19_Witness ==
    /\ pc = "done"
    /\ variant = "adaptive"
    /\ last_cum_ack = NumChunks - 1
    /\ lastResent # <<>>

\* C20: with the fixed window N >= 1 the reorder buffer holds at most N - 1 entries,
\* each with a key in frontier + 2 .. frontier + N.
C20_BufferWithinWindow ==
    (variant = "fixed" /\ n >= 1) =>
        /\ Cardinality(DOMAIN out_of_order_packets) <= n - 1
        /\ \A k \in DOMAIN out_of_order_packets :
              k >= last_cum_ack + 2 /\ k <= last_cum_ack + n

\* C20 witness: with N = 3 the first datagram is missing and the two behind it are
\* buffered.
C20_Witness ==
    /\ variant = "fixed" /\ n = 3
    /\ Cardinality(DOMAIN out_of_order_packets) = 2

====
